---- MODULE Spec2Model ----
(***************************************************************************)
(* A model of the fibble crate: the Wordle/Fibble scoring engine           *)
(* (src/src/lib.rs) and the parts of the command line front end            *)
(* (src/src/main.rs) that select a guess.                                  *)
(*                                                                         *)
(* Characters are ASCII byte values (65 = 'A' ... 90 = 'Z', 97 = 'a' ...   *)
(* 122 = 'z', 32 = ' '); a string is a sequence of them.  Sequences are    *)
(* 1-based here and 0-based in the source.                                 *)
(***************************************************************************)
EXTENDS Integers, Sequences, FiniteSets, TLC

VARIABLES
    secret,      \* Wordle.secret
    mode,        \* Wordle.mode
    guesses,     \* Wordle.guesses
    last,        \* the input and the Result of the latest submit_guess call
    analysis,    \* the input and the Result of the latest analyze_guess call
    p_secret,    \* scoring harness: the secret handed to score
    p_guess,     \* scoring harness: the guess handed to score
    p_letters,   \* scoring harness: what score returned (<<>> before the call)
    cache,       \* the first-guess cache file as serde_json reads it, or None
    insights,    \* what the latest best_guess_with_progress call returned
    pc,          \* where run is: before its loop, in it, or returned
    line,        \* the line run read last
    e_digits,    \* encoder harness: the digits handed to encode_pattern
    e_code,      \* encoder harness: what encode_pattern returned
    e_string     \* encoder harness: what pattern_code_to_string made of it

vars == <<secret, mode, guesses, last, analysis, p_secret, p_guess, p_letters,
          cache, insights, pc, line, e_digits, e_code, e_string>>

\* The variables of the command line front end and of the encoder harness.
front_end == <<cache, insights, pc, line>>
encoder == <<e_digits, e_code, e_string>>

None == [some |-> FALSE]
Some(v) == [some |-> TRUE, value |-> v]

NoCall == [called |-> FALSE]
Call(input, result) == [called |-> TRUE, input |-> input, result |-> result]

\* What read_line gave run: nothing yet, a line, or the end of the input.
NoLine == [read |-> FALSE]
Line(text) == [read |-> TRUE, eof |-> FALSE, text |-> text]
EndOfInput == [read |-> TRUE, eof |-> TRUE]

\* The library used without the front end: no cache file is read or written.
NoFrontEnd ==
    /\ cache = None
    /\ insights = NoCall
    /\ pc = "library"
    /\ line = NoLine

NoEncoder ==
    /\ e_digits = <<>>
    /\ e_code = 0
    /\ e_string = <<>>

----------------------------------------------------------------------------
(* Program constants.                                                      *)

WORD_LENGTH == 5
ALPHABET_SIZE == 26
PATTERN_ABSENT == 0
PATTERN_PRESENT == 1
PATTERN_CORRECT == 2

GameMode == {"Wordle", "Fibble"}

----------------------------------------------------------------------------
(* Bounds of the model.                                                    *)

\* The scoring harness draws its words from the first NumLetters letters.
NumLetters == 3
\* The game is explored up to this many recorded guesses.
MaxGuesses == 2
\* The game fed with raw input is explored up to this many recorded guesses.
MaxRawGuesses == 1
\* The suggestions are explored on games of up to this many recorded guesses.
MaxSuggestRows == 1
\* The front end is followed through this many of the ten lies of a Fibble row.
LieChoices == 1

----------------------------------------------------------------------------
(* The dictionaries.  The data files are not part of the sources; the      *)
(* lists below are a sample with the shape the loaders guarantee:          *)
(* uppercase five-letter words, every secret also an allowed word.         *)

ALLOT == <<65, 76, 76, 79, 84>>
ALLOW == <<65, 76, 76, 79, 87>>
CIGAR == <<67, 73, 71, 65, 82>>
SOARE == <<83, 79, 65, 82, 69>>

WORDLE_ALLOWED_LIST == <<ALLOT, ALLOW, CIGAR, SOARE>>
WORDLE_ALLOWED_SET == {WORDLE_ALLOWED_LIST[i] : i \in DOMAIN WORDLE_ALLOWED_LIST}
WORDLE_SECRET_LIST == <<ALLOT, ALLOW, CIGAR>>

allowed_words == WORDLE_ALLOWED_LIST
secret_words == WORDLE_SECRET_LIST

----------------------------------------------------------------------------
(* Strings.                                                                *)

Range(seq) == {seq[i] : i \in DOMAIN seq}

\* u8::to_ascii_uppercase
ByteUpper(b) == IF b >= 97 /\ b <= 122 THEN b - 32 ELSE b

\* str::to_ascii_uppercase
to_ascii_uppercase(word) == [i \in DOMAIN word |-> ByteUpper(word[i])]

\* u8::is_ascii_uppercase
is_ascii_uppercase(b) == b >= 65 /\ b <= 90

Ok(v) == [ok |-> TRUE, value |-> v]
Err(e) == [ok |-> FALSE, err |-> e]

InvalidLength(expected, found) ==
    [kind |-> "InvalidLength", expected |-> expected, found |-> found]
UnknownWord(word) == [kind |-> "UnknownWord", word |-> word]

\* char::is_whitespace on the ASCII range
is_whitespace(b) == b \in {9, 10, 11, 12, 13, 32}

\* str::trim
RECURSIVE trim(_)
trim(word) ==
    IF word = <<>> THEN word
    ELSE IF is_whitespace(Head(word)) THEN trim(Tail(word))
    ELSE IF is_whitespace(word[Len(word)])
         THEN trim(SubSeq(word, 1, Len(word) - 1))
    ELSE word

\* Mutant of normalize: the word is trimmed before its length is taken.
normalize_trims_first(word) ==
    LET trimmed == trim(word)
        len == Len(trimmed) IN
    IF len # WORD_LENGTH
    THEN Err([kind |-> "InvalidLength", expected |-> WORD_LENGTH, found |-> len])
    ELSE Ok(to_ascii_uppercase(trimmed))

\* The length test comes first and is made on the word as given.
normalize(word) ==
    LET len == Len(word) IN
    IF len # WORD_LENGTH
    THEN Err(InvalidLength(WORD_LENGTH, len))
    ELSE Ok(to_ascii_uppercase(word))

\* Mutant of ensure_allowed: every word of the right length is let through.
ensure_allowed_lets_all_through(word) == Ok(<<>>)

ensure_allowed(word) ==
    IF word \in WORDLE_ALLOWED_SET
    THEN Ok(<<>>)
    ELSE Err(UnknownWord(word))

----------------------------------------------------------------------------
(* Scoring.                                                                *)

letter_index(letter) == letter - 65

Correct(c) == [state |-> "Correct", letter |-> c]
Present(c) == [state |-> "Present", letter |-> c]
Absent(c) == [state |-> "Absent", letter |-> c]

\* The first loop of compute_pattern_digits, from position idx on.
RECURSIVE MarkCorrect(_, _, _, _)
MarkCorrect(sec, gss, idx, st) ==
    IF idx > WORD_LENGTH THEN st
    ELSE MarkCorrect(sec, gss, idx + 1,
            IF gss[idx] = sec[idx]
            THEN [st EXCEPT !.digits[idx] = PATTERN_CORRECT]
            ELSE [st EXCEPT !.leftovers[letter_index(sec[idx])] = @ + 1])

\* Mutant of MarkPresent: a found letter is not taken out of the leftovers.
RECURSIVE MarkPresentKeepsLeftovers(_, _, _)
MarkPresentKeepsLeftovers(gss, idx, st) ==
    IF idx > WORD_LENGTH THEN st
    ELSE MarkPresentKeepsLeftovers(gss, idx + 1,
            IF st.digits[idx] = PATTERN_CORRECT THEN st
            ELSE LET lookup == letter_index(gss[idx]) IN
                 IF st.leftovers[lookup] > 0
                 THEN [st EXCEPT !.digits[idx] = PATTERN_PRESENT]
                 ELSE st)

\* Mutant of MarkPresent: the second loop runs from the last position down.
RECURSIVE MarkPresentBackwards(_, _, _)
MarkPresentBackwards(gss, idx, st) ==
    IF idx > WORD_LENGTH THEN st
    ELSE LET at == WORD_LENGTH + 1 - idx IN
         MarkPresentBackwards(gss, idx + 1,
            IF st.digits[at] = PATTERN_CORRECT THEN st
            ELSE LET lookup == letter_index(gss[at]) IN
                 IF st.leftovers[lookup] > 0
                 THEN [st EXCEPT !.digits[at] = PATTERN_PRESENT,
                                 !.leftovers[lookup] = @ - 1]
                 ELSE st)

\* The second loop of compute_pattern_digits, from position idx on.
RECURSIVE MarkPresent(_, _, _)
MarkPresent(gss, idx, st) ==
    IF idx > WORD_LENGTH THEN st
    ELSE MarkPresent(gss, idx + 1,
            IF st.digits[idx] = PATTERN_CORRECT THEN st
            ELSE LET lookup == letter_index(gss[idx]) IN
                 IF st.leftovers[lookup] > 0
                 THEN [st EXCEPT !.digits[idx] = PATTERN_PRESENT,
                                 !.leftovers[lookup] = @ - 1]
                 ELSE st)

compute_pattern_digits(sec, gss) ==
    LET start == [digits |-> [i \in 1..WORD_LENGTH |-> PATTERN_ABSENT],
                  leftovers |-> [l \in 0..(ALPHABET_SIZE - 1) |-> 0]]
    IN MarkPresent(gss, 1, MarkCorrect(sec, gss, 1, start)).digits

\* Mutant of score: the arms for Correct and Present are exchanged.
scoreArmsSwapped(sec, gss) ==
    LET pattern_digits == compute_pattern_digits(sec, gss) IN
    [i \in 1..WORD_LENGTH |->
        IF pattern_digits[i] = PATTERN_PRESENT THEN Correct(gss[i])
        ELSE IF pattern_digits[i] = PATTERN_CORRECT THEN Present(gss[i])
        ELSE Absent(gss[i])]

score(sec, gss) ==
    LET pattern_digits == compute_pattern_digits(sec, gss) IN
    [i \in 1..WORD_LENGTH |->
        IF pattern_digits[i] = PATTERN_CORRECT THEN Correct(gss[i])
        ELSE IF pattern_digits[i] = PATTERN_PRESENT THEN Present(gss[i])
        ELSE Absent(gss[i])]

----------------------------------------------------------------------------
(* The scoring harness: score applied to every pair of words over a small  *)
(* alphabet, and to the pair of the crate's own duplicate-letter test.     *)

APPLE == <<65, 80, 80, 76, 69>>

Alphabet == 65..(65 + NumLetters - 1)
Words == [1..WORD_LENGTH -> Alphabet]

NoGame ==
    /\ secret = CIGAR
    /\ mode = "Wordle"
    /\ guesses = <<>>
    /\ last = <<>>
    /\ analysis = <<>>
    /\ NoFrontEnd

InitScore ==
    /\ NoGame
    /\ NoEncoder
    /\ \E pair \in (Words \X Words) \cup {<<APPLE, ALLOT>>} :
            /\ p_secret = pair[1]
            /\ p_guess = pair[2]
    /\ p_letters = <<>>

CallScore ==
    /\ p_letters = <<>>
    /\ p_letters' = score(p_secret, p_guess)
    /\ UNCHANGED <<secret, mode, guesses, last, analysis, p_secret, p_guess>>
    /\ UNCHANGED <<front_end, encoder>>

NextScore == CallScore

SpecScore == InitScore /\ [][NextScore]_vars

Scored == p_letters # <<>>

Positions == 1..WORD_LENGTH

\* The positions of word w that hold letter c.
Holding(w, c) == {i \in Positions : w[i] = c}

\* The positions where the guess and the secret of the harness agree.
SamePositions == {i \in Positions : p_guess[i] = p_secret[i]}

\* C1: tile i of score(S, G), and digit i of compute_pattern_digits(S, G),
\* is Correct exactly when G[i] = S[i]; so there are as many Correct tiles
\* as positions where S and G hold the same letter.
C1_CorrectIffSameLetter ==
    Scored =>
        /\ \A i \in Positions :
              /\ (p_letters[i].state = "Correct") <=> (p_guess[i] = p_secret[i])
              /\ (compute_pattern_digits(p_secret, p_guess)[i] = PATTERN_CORRECT)
                    <=> (p_guess[i] = p_secret[i])
        /\ Cardinality({i \in Positions : p_letters[i].state = "Correct"})
              = Cardinality(SamePositions)

\* A scored pair with a Correct tile, and a shared letter that is not Correct.
C1_Witness ==
    /\ Scored
    /\ \E i, j \in Positions :
          /\ p_letters[i].state = "Correct"
          /\ p_letters[j].state # "Correct"
          /\ Holding(p_secret, p_guess[j]) # {}

\* C2: for every letter c, the Present or Correct tiles at the positions
\* where G holds c are at most the occurrences of c in S and at most the
\* occurrences of c in G.
C2_MarkedAtMostOccurrences ==
    Scored =>
        \A c \in {p_guess[i] : i \in Positions} :
            LET marked == {i \in Holding(p_guess, c) :
                              p_letters[i].state \in {"Present", "Correct"}}
            IN /\ Cardinality(marked) <= Cardinality(Holding(p_secret, c))
               /\ Cardinality(marked) <= Cardinality(Holding(p_guess, c))

\* A scored guess that holds a letter more often than the secret does, with
\* as many marked tiles of that letter as the secret has occurrences.
C2_Witness ==
    /\ Scored
    /\ \E c \in {p_guess[i] : i \in Positions} :
          /\ Cardinality(Holding(p_guess, c)) > Cardinality(Holding(p_secret, c))
          /\ Cardinality(Holding(p_secret, c)) = 2
          /\ Cardinality({i \in Holding(p_guess, c) :
                 p_letters[i].state \in {"Present", "Correct"}}) = 2

\* C3: for every letter c, among the non-Correct positions of G that hold
\* c exactly the leftmost k are Present and the later ones Absent, where k
\* is the smaller of their number and the number of non-Correct positions
\* of S that hold c; score("APPLE", "ALLOT") is G Y B B B.
C3_LeftmostWinPresent ==
    Scored =>
        /\ \A c \in {p_guess[i] : i \in Positions} :
              LET open_g == Holding(p_guess, c) \ SamePositions
                  open_s == Holding(p_secret, c) \ SamePositions
                  k == IF Cardinality(open_g) < Cardinality(open_s)
                       THEN Cardinality(open_g) ELSE Cardinality(open_s)
              IN \A i \in open_g :
                    LET before == Cardinality({j \in open_g : j < i}) IN
                    p_letters[i] = IF before < k THEN Present(c) ELSE Absent(c)
        /\ (p_secret = APPLE /\ p_guess = ALLOT) =>
              p_letters = <<Correct(65), Present(76), Absent(76),
                            Absent(79), Absent(84)>>

\* The pair of the duplicate-letter test has been scored: L is open twice in
\* the guess and once in the secret, and only the left one is Present.
C3_Witness ==
    /\ Scored
    /\ p_secret = APPLE
    /\ p_guess = ALLOT
    /\ p_letters[2] = Present(76)
    /\ p_letters[3] = Absent(76)

----------------------------------------------------------------------------
(* The lie of Fibble mode.  The two random draws are the parameters        *)
(* lie_index (gen_range(0..letters.len())) and pick (gen_range(0..2)).     *)

\* Mutant of random_lie_state: the second arm of each match repeats the
\* state it was given.
random_lie_state_may_repeat(state, pick) ==
    LET letter == state.letter IN
    IF pick = 0
    THEN (IF state.state = "Correct" THEN Present(letter) ELSE Correct(letter))
    ELSE state

random_lie_state(state, pick) ==
    LET letter == state.letter IN
    CASE state.state = "Correct" ->
            (IF pick = 0 THEN Present(letter) ELSE Absent(letter))
      [] state.state = "Present" ->
            (IF pick = 0 THEN Correct(letter) ELSE Absent(letter))
      [] state.state = "Absent" ->
            (IF pick = 0 THEN Correct(letter) ELSE Present(letter))

\* Mutant of apply_fibble_lie: the tile after the chosen one is changed too.
apply_fibble_lie_twice(letters, lie_index, pick) ==
    IF letters = <<>> THEN letters
    ELSE LET next == ((lie_index + 1) % Len(letters)) + 1 IN
         [letters EXCEPT
            ![lie_index + 1] = random_lie_state(letters[lie_index + 1], pick),
            ![next] = random_lie_state(letters[next], pick)]

apply_fibble_lie(letters, lie_index, pick) ==
    IF letters = <<>> THEN letters
    ELSE [letters EXCEPT
            ![lie_index + 1] = random_lie_state(letters[lie_index + 1], pick)]

----------------------------------------------------------------------------
(* The game.                                                               *)

\* The game as the library functions receive it.
game == [secret |-> secret, mode |-> mode, guesses |-> guesses]

GuessResult(guess, letters) == [guess |-> guess, letters |-> letters]

is_correct(row) ==
    \A i \in DOMAIN row.letters : row.letters[i].state = "Correct"

new_with_mode(word, m) ==
    LET normalized == normalize(word) IN
    IF ~normalized.ok THEN Err(normalized.err)
    ELSE LET allowed == ensure_allowed(normalized.value) IN
         IF ~allowed.ok THEN Err(allowed.err)
         ELSE Ok([secret |-> normalized.value, mode |-> m, guesses |-> <<>>])

new(word) == new_with_mode(word, "Wordle")

\* Mutant of fibble_guess_matches: a row without a lie is accepted too.
fibble_guess_matches_at_most_one(sec, row) ==
    LET truth == score(sec, row.guess)
        both == IF Len(truth) < Len(row.letters)
                THEN Len(truth) ELSE Len(row.letters)
        mismatches == Cardinality({i \in 1..both : truth[i] # row.letters[i]})
    IN mismatches <= 1

fibble_guess_matches(sec, row) ==
    LET truth == score(sec, row.guess)
        both == IF Len(truth) < Len(row.letters)
                THEN Len(truth) ELSE Len(row.letters)
        mismatches == Cardinality({i \in 1..both : truth[i] # row.letters[i]})
    IN mismatches = 1

fibble_history_matches(sec, rows) ==
    \A k \in DOMAIN rows : fibble_guess_matches(sec, rows[k])

\* Mutant of secret_matches_history: the arms of the match are exchanged.
secret_matches_history_arms_swapped(sec, g) ==
    IF g.mode = "Fibble"
    THEN \A k \in DOMAIN g.guesses :
            score(sec, g.guesses[k].guess) = g.guesses[k].letters
    ELSE fibble_history_matches(sec, g.guesses)

secret_matches_history(sec, g) ==
    IF g.mode = "Wordle"
    THEN \A k \in DOMAIN g.guesses :
            score(sec, g.guesses[k].guess) = g.guesses[k].letters
    ELSE fibble_history_matches(sec, g.guesses)

\* remaining_secrets collecting the kept secrets in front of the earlier ones.
remaining_secrets_newest_first(g) ==
    LET keep(sec) == secret_matches_history(sec, g)
        kept == SelectSeq(WORDLE_SECRET_LIST, keep)
    IN [idx \in DOMAIN kept |-> kept[Len(kept) + 1 - idx]]

remaining_secrets(g) ==
    LET keep(sec) == secret_matches_history(sec, g)
    IN SelectSeq(WORDLE_SECRET_LIST, keep)

----------------------------------------------------------------------------
(* Inputs.  LowerCigar is "cigar", PaddedCigar " CIGAR ", PaddedCiga       *)
(* " CIGA", Longer "LONGER", Tool "TOOL" and Zzzzz "ZZZZZ".                *)

LowerCigar == <<99, 105, 103, 97, 114>>
PaddedCigar == <<32, 67, 73, 71, 65, 82, 32>>
PaddedCiga == <<32, 67, 73, 71, 65>>
Longer == <<76, 79, 78, 71, 69, 82>>
Tool == <<84, 79, 79, 76>>
Zzzzz == <<90, 90, 90, 90, 90>>

\* The guesses the game of the main specification is fed: two secrets, one
\* of them in lowercase, an allowed word that is no secret, a word that is
\* too long and an unknown word.
GuessInputs == {ALLOT, LowerCigar, SOARE, Longer, Zzzzz}

\* Raw input: every allowed word, and words in lowercase, with blanks
\* around them, of other lengths and unknown.
RawInputs ==
    WORDLE_ALLOWED_SET \cup GuessInputs \cup {PaddedCigar, PaddedCiga, Tool}

NoHarness ==
    /\ p_secret = <<>>
    /\ p_guess = <<>>
    /\ p_letters = <<>>
    /\ NoEncoder

\* A game as new_with_mode returns it, for every input it accepts.
Init ==
    /\ \E word \in RawInputs, m \in GameMode :
          LET made == new_with_mode(word, m) IN
          /\ made.ok
          /\ secret = made.value.secret
          /\ mode = made.value.mode
          /\ guesses = made.value.guesses
    /\ last = NoCall
    /\ analysis = NoCall
    /\ NoHarness
    /\ NoFrontEnd

submit_guess(guess) ==
    LET normalized_guess == normalize(guess) IN
    IF ~normalized_guess.ok
    THEN /\ last' = Call(guess, Err(normalized_guess.err))
         /\ UNCHANGED guesses
    ELSE LET allowed == ensure_allowed(normalized_guess.value) IN
         IF ~allowed.ok
         THEN /\ last' = Call(guess, Err(allowed.err))
              /\ UNCHANGED guesses
         ELSE LET truth == score(secret, normalized_guess.value)
                  Record(letters) ==
                    LET row == GuessResult(normalized_guess.value, letters)
                    IN /\ guesses' = Append(guesses, row)
                       /\ last' = Call(guess, Ok(row))
              IN IF mode = "Fibble"
                 THEN \E lie_index \in 0..(Len(truth) - 1), pick \in 0..1 :
                        Record(apply_fibble_lie(truth, lie_index, pick))
                 ELSE Record(truth)

SubmitGuess ==
    /\ Len(guesses) < MaxGuesses
    /\ \E guess \in GuessInputs : submit_guess(guess)
    /\ UNCHANGED <<secret, mode, analysis, p_secret, p_guess, p_letters>>
    /\ UNCHANGED <<front_end, encoder>>

Next == SubmitGuess

Spec == Init /\ [][Next]_vars

----------------------------------------------------------------------------
(* Entropy analysis.                                                       *)

PATTERN_SPACE == 3 ^ WORD_LENGTH

RECURSIVE EncodeFrom(_, _, _)
EncodeFrom(digits, idx, acc) ==
    IF idx > Len(digits) THEN acc
    ELSE EncodeFrom(digits, idx + 1, acc * 3 + digits[idx])

\* encode_pattern folding from the last digit: the first is least significant.
encode_pattern_last_first(digits) ==
    EncodeFrom([idx \in DOMAIN digits |-> digits[Len(digits) + 1 - idx]], 1, 0)

encode_pattern(digits) == EncodeFrom(digits, 1, 0)

GuessEntropy(guess, pattern_counts) ==
    [guess |-> guess, pattern_counts |-> pattern_counts]

\* The loop of analyze_guess_against over the secrets, from secrets[idx] on.
RECURSIVE CountPatterns(_, _, _, _)
CountPatterns(guess_bytes, secrets, idx, pattern_counts) ==
    IF idx > Len(secrets) THEN pattern_counts
    ELSE LET digits == compute_pattern_digits(secrets[idx], guess_bytes)
             pattern_code == encode_pattern(digits)
         IN CountPatterns(guess_bytes, secrets, idx + 1,
                [pattern_counts EXCEPT ![pattern_code] = @ + 1])

analyze_guess_against(guess, secrets) ==
    LET normalized_guess == normalize(guess) IN
    IF ~normalized_guess.ok THEN Err(normalized_guess.err)
    ELSE LET allowed == ensure_allowed(normalized_guess.value) IN
         IF ~allowed.ok THEN Err(allowed.err)
         ELSE Ok(GuessEntropy(normalized_guess.value,
                    CountPatterns(normalized_guess.value, secrets, 1,
                        [code \in 0..(PATTERN_SPACE - 1) |-> 0])))

analyze_guess(guess) == analyze_guess_against(guess, secret_words)

\* The pattern codes that occur (the filter of pattern_counts and of
\* distinct_patterns, the test of the fold of entropy_bits).
Occurring(pattern_counts) ==
    {code \in 0..(PATTERN_SPACE - 1) : pattern_counts[code] > 0}

\* The sum of the counters; the counters that are 0 add nothing.
RECURSIVE SumCounts(_, _)
SumCounts(pattern_counts, codes) ==
    IF codes = {} THEN 0
    ELSE LET code == CHOOSE c \in codes : TRUE IN
         pattern_counts[code] + SumCounts(pattern_counts, codes \ {code})

total_secrets(entropy) ==
    SumCounts(entropy.pattern_counts, Occurring(entropy.pattern_counts))

distinct_patterns(entropy) == Cardinality(Occurring(entropy.pattern_counts))

\* The product of count^count over the patterns that occur.
RECURSIVE Weight(_, _)
Weight(pattern_counts, codes) ==
    IF codes = {} THEN 1
    ELSE LET code == CHOOSE c \in codes : TRUE IN
         (pattern_counts[code] ^ pattern_counts[code])
            * Weight(pattern_counts, codes \ {code})

\* An entropy in bits is kept as the pair (total, weight) that stands for
\* log2(total) - log2(weight) / total, the value of the fold of
\* entropy_bits.  Every distribution with one pattern (and the empty one)
\* gives 0.0.  For totals up to 4 the f64 sum of the fold is the same for
\* every order of the same counts, so equal pairs are equal floats.
ZeroBits == [total |-> 1, weight |-> 1]

entropy_bits(entropy) ==
    LET total == total_secrets(entropy)
        weight == Weight(entropy.pattern_counts,
                         Occurring(entropy.pattern_counts))
    IN IF total = 0 \/ weight = total ^ total THEN ZeroBits
       ELSE [total |-> total, weight |-> weight]

\* a > b on entropies taken over the same number of secrets.
BitsGreater(a, b) ==
    IF a = b \/ a = ZeroBits THEN FALSE
    ELSE IF b = ZeroBits THEN TRUE
    ELSE a.weight < b.weight

\* f64::partial_cmp; no entropy is NaN.
partial_cmp(a, b) ==
    IF BitsGreater(a, b) THEN "Greater"
    ELSE IF BitsGreater(b, a) THEN "Less"
    ELSE "Equal"

\* Iterator::filter_map over the allowed words, from allowed_words[idx] on.
RECURSIVE AnalyzeAll(_, _)
AnalyzeAll(candidates, idx) ==
    IF idx > Len(allowed_words) THEN <<>>
    ELSE LET entropy == analyze_guess_against(allowed_words[idx], candidates)
         IN (IF entropy.ok THEN <<entropy.value>> ELSE <<>>)
                \o AnalyzeAll(candidates, idx + 1)

\* Iterator::max_by: the held element gives way unless it compares Greater,
\* so of several maxima the last one is returned.
RECURSIVE MaxByEntropy(_, _, _)
MaxByEntropy(items, idx, held) ==
    IF idx > Len(items) THEN held
    ELSE MaxByEntropy(items, idx + 1,
            IF partial_cmp(entropy_bits(held), entropy_bits(items[idx]))
                    = "Greater"
            THEN held ELSE items[idx])

best_information_guess(g) ==
    LET candidates == remaining_secrets(g) IN
    IF candidates = <<>> THEN None
    ELSE LET items == AnalyzeAll(candidates, 1) IN
         IF items = <<>> THEN None
         ELSE Some(MaxByEntropy(items, 2, items[1]))

----------------------------------------------------------------------------
(* The suggestions of the command line front end.                          *)

GuessSuggestion(word, bits, matching_secrets) ==
    [word |-> word, entropy_bits |-> bits, matching_secrets |-> matching_secrets]

\* slice::sort_by with the comparison b.partial_cmp(a): a stable sort, the
\* greater entropy first.  Insert puts item behind every element that is
\* not smaller than it.
RECURSIVE InsertByEntropy(_, _)
InsertByEntropy(sorted, item) ==
    IF sorted = <<>> THEN <<item>>
    ELSE IF BitsGreater(item.entropy_bits, Head(sorted).entropy_bits)
         THEN <<item>> \o sorted
         ELSE <<Head(sorted)>> \o InsertByEntropy(Tail(sorted), item)

RECURSIVE SortByEntropyDesc(_, _, _)
SortByEntropyDesc(items, idx, sorted) ==
    IF idx > Len(items) THEN sorted
    ELSE SortByEntropyDesc(items, idx + 1, InsertByEntropy(sorted, items[idx]))

\* Vec::truncate
truncate(items, len) ==
    IF Len(items) > len THEN SubSeq(items, 1, len) ELSE items

\* The loop of calculate_guess_suggestions, from allowed[idx] on.
RECURSIVE ScanAllowed(_, _, _)
ScanAllowed(candidates, idx, st) ==
    IF idx > Len(allowed_words) THEN st
    ELSE LET entropy == analyze_guess_against(allowed_words[idx], candidates) IN
         IF ~entropy.ok THEN ScanAllowed(candidates, idx + 1, st)
         ELSE LET suggestion ==
                    GuessSuggestion(entropy.value.guess,
                                    entropy_bits(entropy.value),
                                    total_secrets(entropy.value))
                  better == \/ ~st.best.some
                            \/ BitsGreater(suggestion.entropy_bits,
                                           st.best.value.entropy_bits)
              IN ScanAllowed(candidates, idx + 1,
                    [best |-> IF better THEN Some(suggestion) ELSE st.best,
                     secret_only |->
                        IF suggestion.word \in Range(candidates)
                        THEN Append(st.secret_only, suggestion)
                        ELSE st.secret_only,
                     all_suggestions |->
                        IF st.all_suggestions.some
                        THEN Some(Append(st.all_suggestions.value, suggestion))
                        ELSE None])

calculate_guess_suggestions(candidates, collect_all) ==
    LET done == ScanAllowed(candidates, 1,
                    [best |-> None,
                     secret_only |-> <<>>,
                     all_suggestions |-> IF collect_all THEN Some(<<>>) ELSE None])
    IN [insights |->
            [best_guess |-> done.best,
             top_secret_guesses |->
                truncate(SortByEntropyDesc(done.secret_only, 1, <<>>), 4)],
        all_suggestions |-> done.all_suggestions]

----------------------------------------------------------------------------
(* The game fed with raw input: words in lowercase, with blanks around     *)
(* them and of other lengths go to submit_guess and to analyze_guess.      *)

SubmitRawGuess ==
    /\ Len(guesses) < MaxRawGuesses
    /\ \E guess \in RawInputs : submit_guess(guess)
    /\ UNCHANGED <<secret, mode, analysis, p_secret, p_guess, p_letters>>
    /\ UNCHANGED <<front_end, encoder>>

AnalyzeRawGuess ==
    /\ \E guess \in RawInputs : analysis' = Call(guess, analyze_guess(guess))
    /\ UNCHANGED <<secret, mode, guesses, last, p_secret, p_guess, p_letters>>
    /\ UNCHANGED <<front_end, encoder>>

NextInput == SubmitRawGuess \/ AnalyzeRawGuess

SpecInput == Init /\ [][NextInput]_vars

----------------------------------------------------------------------------
(* Properties of the game.                                                 *)

SecretSet == Range(WORDLE_SECRET_LIST)

\* The positions where two rows of tiles differ.
Differing(a, b) == {i \in Positions : a[i] # b[i]}

\* C4: in Fibble mode every recorded row differs from the true pattern of
\* its guess in exactly one tile; that tile keeps the guess letter and has
\* one of the two other states; the true pattern is never what is stored.
C4_FibbleRowsLieOnce ==
    mode = "Fibble" =>
        \A k \in DOMAIN guesses :
            LET row == guesses[k]
                truth == score(secret, row.guess)
            IN /\ Len(row.letters) = WORD_LENGTH
               /\ Cardinality(Differing(truth, row.letters)) = 1
               /\ row.letters # truth
               /\ \A i \in Positions :
                     /\ row.letters[i].letter = row.guess[i]
                     /\ row.letters[i].state \in {"Correct", "Present", "Absent"}
                     /\ i \in Differing(truth, row.letters)
                            => row.letters[i].state # truth[i].state

\* A Fibble game with two recorded rows, one of them for the secret itself.
C4_Witness ==
    /\ mode = "Fibble"
    /\ Len(guesses) = 2
    /\ guesses[2].guess = secret
    /\ guesses[1].guess # secret

\* C5: in Fibble mode remaining_secrets keeps a candidate exactly when each
\* row, taken alone, differs from score(candidate, row.guess) in exactly one
\* position.
C5_FibbleKeepsIffOneLiePerRow ==
    mode = "Fibble" =>
        \A c \in SecretSet :
            (c \in Range(remaining_secrets(game)))
                <=> \A k \in DOMAIN guesses :
                        Cardinality(Differing(score(c, guesses[k].guess),
                                              guesses[k].letters)) = 1

\* A Fibble game where one candidate is dropped by a row without a lie
\* although the other row fits it, another candidate is dropped by a row
\* with two or more differing tiles, and a third candidate is kept.
C5_Witness ==
    /\ mode = "Fibble"
    /\ Len(guesses) = 2
    /\ \E c \in SecretSet, j, k \in DOMAIN guesses :
          /\ Differing(score(c, guesses[j].guess), guesses[j].letters) = {}
          /\ Cardinality(Differing(score(c, guesses[k].guess),
                                   guesses[k].letters)) = 1
          /\ c \notin Range(remaining_secrets(game))
    /\ \E c \in SecretSet, j \in DOMAIN guesses :
          /\ Cardinality(Differing(score(c, guesses[j].guess),
                                   guesses[j].letters)) >= 2
          /\ c \notin Range(remaining_secrets(game))
    /\ secret \in Range(remaining_secrets(game))

SecretWasGuessed == \E k \in DOMAIN guesses : guesses[k].guess = secret

\* C6 as stated: in Wordle mode, for every accepted secret, once the secret
\* has been recorded as a guess remaining_secrets is the one-element
\* sequence holding it.
C6_AsStated ==
    (mode = "Wordle" /\ SecretWasGuessed) => remaining_secrets(game) = <<secret>>

\* C6 amended: the same for every secret that is a word of the secret list.
C6_CollapsesForListedSecret ==
    (mode = "Wordle" /\ SecretWasGuessed /\ secret \in SecretSet)
        => remaining_secrets(game) = <<secret>>

\* A Wordle game with a listed secret that was guessed second.
C6_Witness ==
    /\ mode = "Wordle"
    /\ secret \in SecretSet
    /\ Len(guesses) = 2
    /\ guesses[1].guess # secret
    /\ guesses[2].guess = secret

\* C7: when the secret is a word of the secret list, remaining_secrets
\* holds it after any calls of submit_guess, in both modes.
C7_SecretStaysCandidate ==
    secret \in SecretSet => secret \in Range(remaining_secrets(game))

\* A Fibble game with a listed secret after an accepted and then a rejected
\* guess, where the history has ruled a candidate out.
C7_Witness ==
    /\ mode = "Fibble"
    /\ secret \in SecretSet
    /\ Len(guesses) >= 1
    /\ last.called
    /\ ~last.result.ok
    /\ Len(remaining_secrets(game)) < Len(WORDLE_SECRET_LIST)

ValidRow(row) ==
    /\ Len(row.guess) = WORD_LENGTH
    /\ \A i \in DOMAIN row.guess : is_ascii_uppercase(row.guess[i])
    /\ row.guess \in WORDLE_ALLOWED_SET

\* C8: a call of submit_guess that fails leaves the history as it was, and
\* every row of the history has a guess that is a five-character uppercase
\* word of the allowed set.
C8_OnlyValidGuessesRecorded ==
    /\ [][(last'.called /\ ~last'.result.ok) => guesses' = guesses]_vars
    /\ [](\A k \in DOMAIN guesses : ValidRow(guesses[k]))

\* A rejected call on a game that holds a row entered in lowercase.
C8_Witness ==
    /\ Len(guesses) >= 1
    /\ last.called
    /\ ~last.result.ok
    /\ last.result.err.kind = "UnknownWord"
    /\ guesses[1].guess = CIGAR

----------------------------------------------------------------------------
(* Properties of the validation of input and of the choice of a guess.     *)

\* The word a successful call recorded: the guess of the row or of the
\* analysis.
Recorded(call) == call.result.value.guess

\* What a call must have returned when the length is taken from `measured`
\* and the word looked up is `looked_up`.
Validated(call, measured, looked_up) ==
    IF Len(measured) # WORD_LENGTH
    THEN call.result = Err(InvalidLength(WORD_LENGTH, Len(measured)))
    ELSE IF looked_up \notin WORDLE_ALLOWED_SET
    THEN call.result = Err(UnknownWord(looked_up))
    ELSE call.result.ok /\ Recorded(call) = looked_up

\* C9 as stated: submit_guess and analyze_guess_against trim and uppercase
\* the input, then check the length of the trimmed input, then look the
\* word up; an allowed word with blanks around it is accepted and recorded
\* in normalized form.
C9_AsStated ==
    \A call \in {last, analysis} :
        call.called =>
            Validated(call, trim(call.input),
                      to_ascii_uppercase(trim(call.input)))

\* C9 amended: the length of the input as given is checked first, then the
\* input is uppercased (never trimmed), then the word is looked up; an
\* allowed word in any letter case is accepted and recorded in uppercase,
\* and one with blanks around it is rejected by one of the two checks.
C9_LengthOfRawInputCheckedFirst ==
    \A call \in {last, analysis} :
        call.called =>
            /\ Validated(call, call.input, to_ascii_uppercase(call.input))
            /\ (trim(call.input) # call.input) => ~call.result.ok
            /\ (call = last /\ call.result.ok) =>
                    guesses[Len(guesses)] = call.result.value

\* submit_guess has rejected " CIGAR " for its length of 7 and analyze_guess
\* has rejected " CIGA" as an unknown word.
C9_Witness ==
    /\ last.called
    /\ last.input = PaddedCigar
    /\ last.result = Err(InvalidLength(WORD_LENGTH, 7))
    /\ analysis.called
    /\ analysis.input = PaddedCiga
    /\ analysis.result = Err(UnknownWord(PaddedCiga))

\* The entropy of allowed word number idx against the candidates.
BitsOf(candidates, idx) ==
    entropy_bits(analyze_guess_against(allowed_words[idx], candidates).value)

\* The earliest allowed word of maximal entropy against the candidates.
EarliestBest(candidates) ==
    LET maximal == {i \in DOMAIN allowed_words :
                        \A j \in DOMAIN allowed_words :
                            ~BitsGreater(BitsOf(candidates, j),
                                         BitsOf(candidates, i))}
        first == CHOOSE i \in maximal : \A j \in maximal : i <= j
    IN allowed_words[first]

\* C10: when several allowed words share the maximal entropy against the
\* remaining candidates, best_information_guess and
\* calculate_guess_suggestions both return the earliest of them in the
\* allowed list.
C10_EarliestOfEqualMaximaWins ==
    LET candidates == remaining_secrets(game) IN
    candidates # <<>> =>
        /\ best_information_guess(game).some
        /\ best_information_guess(game).value.guess = EarliestBest(candidates)
        /\ calculate_guess_suggestions(candidates, FALSE)
                .insights.best_guess.value.word = EarliestBest(candidates)

\* The part of C10 that holds: the scan of calculate_guess_suggestions
\* replaces its best entry only for a strictly greater entropy.
C10_SuggestionsKeepEarliest ==
    LET candidates == remaining_secrets(game) IN
    candidates # <<>> =>
        calculate_guess_suggestions(candidates, FALSE)
            .insights.best_guess.value.word = EarliestBest(candidates)

\* ---------------------------------------------------------------------
\* Pattern codes and their display strings.

\* The loop of pattern_code_to_string, from position idx down to the first.
RECURSIVE DecodeFrom(_, _, _)
DecodeFrom(code, idx, chars) ==
    IF idx < 1 THEN chars
    ELSE LET digit == code % 3
             byte == CASE digit = 2 -> 71
                       [] digit = 1 -> 89
                       [] OTHER -> 66
         IN DecodeFrom(code \div 3, idx - 1, [chars EXCEPT ![idx] = byte])

pattern_code_to_string(code) ==
    DecodeFrom(code, WORD_LENGTH, [idx \in 1..WORD_LENGTH |-> 66])

\* Every feedback pattern: five digits, each PATTERN_ABSENT, PATTERN_PRESENT
\* or PATTERN_CORRECT.
Patterns == [1..WORD_LENGTH -> {PATTERN_ABSENT, PATTERN_PRESENT, PATTERN_CORRECT}]

InitEncode ==
    /\ NoGame
    /\ p_secret = <<>>
    /\ p_guess = <<>>
    /\ p_letters = <<>>
    /\ e_digits \in Patterns
    /\ e_code = 0
    /\ e_string = <<>>

CallEncode ==
    /\ e_string = <<>>
    /\ e_code' = encode_pattern(e_digits)
    /\ e_string' = pattern_code_to_string(encode_pattern(e_digits))
    /\ UNCHANGED <<secret, mode, guesses, last, analysis, p_secret, p_guess,
                   p_letters, e_digits>>
    /\ UNCHANGED front_end

NextEncode == CallEncode

SpecEncode == InitEncode /\ [][NextEncode]_vars

Encoded == e_string # <<>>

\* The value of the digits read as a base-3 numeral, first digit first.
Base3Value(digits) ==
    digits[1] * 81 + digits[2] * 27 + digits[3] * 9 + digits[4] * 3 + digits[5]

\* The letter the display uses for a digit.
DigitLetter(digit) ==
    CASE digit = PATTERN_CORRECT -> 71
      [] digit = PATTERN_PRESENT -> 89
      [] digit = PATTERN_ABSENT -> 66

\* C15: encode_pattern gives five digits their base-3 value, first position
\* most significant; the value lies in 0 .. PATTERN_SPACE - 1; no other
\* pattern has the same code; and pattern_code_to_string of the code spells
\* the pattern again, G for 2, Y for 1 and B for 0.
C15_CodeIsBase3AndDecodesBack ==
    Encoded =>
        /\ e_code = Base3Value(e_digits)
        /\ e_code \in 0..(PATTERN_SPACE - 1)
        /\ \A other \in Patterns :
              encode_pattern(other) = e_code => other = e_digits
        /\ e_string = [idx \in 1..WORD_LENGTH |-> DigitLetter(e_digits[idx])]

\* An encoded pattern holding all three digits, its first and last differing,
\* so that neither the order of the digits nor the letters can be confused.
C15_Witness ==
    /\ Encoded
    /\ {e_digits[idx] : idx \in 1..WORD_LENGTH} = {0, 1, 2}
    /\ e_digits[1] = PATTERN_CORRECT
    /\ e_digits[WORD_LENGTH] = PATTERN_ABSENT
    /\ e_code = 2 * 81 + e_digits[2] * 27 + e_digits[3] * 9 + e_digits[4] * 3

\* ---------------------------------------------------------------------
\* The candidates and the secret list; winning rows.

\* part can be had from whole by leaving elements out, the rest in order.
RECURSIVE IsSubsequence(_, _)
IsSubsequence(part, whole) ==
    IF part = <<>> THEN TRUE
    ELSE IF whole = <<>> THEN FALSE
    ELSE IF Head(part) = Head(whole)
         THEN IsSubsequence(Tail(part), Tail(whole))
         ELSE IsSubsequence(part, Tail(whole))

\* C16: remaining_secrets is always a subsequence of the secret list, in
\* the list's order, and with an empty history it is the whole secret list,
\* in Wordle mode and in Fibble mode.
C16_RemainingIsSublistInOrder ==
    /\ IsSubsequence(remaining_secrets(game), WORDLE_SECRET_LIST)
    /\ guesses = <<>> => remaining_secrets(game) = WORDLE_SECRET_LIST

\* A Fibble history that drops one secret of the list and keeps two or more.
C16_Witness ==
    /\ mode = "Fibble"
    /\ guesses # <<>>
    /\ Len(remaining_secrets(game)) = Len(WORDLE_SECRET_LIST) - 1
    /\ Len(remaining_secrets(game)) >= 2

\* C14: a row that submit_guess returned is_correct exactly when its guess
\* is the game's secret, in either mode.
C14_CorrectIffGuessIsSecret ==
    (last.called /\ last.result.ok) =>
        (is_correct(last.result.value) <=> last.result.value.guess = secret)

\* In Wordle mode the row is score(secret, guess), and C14 holds.
C14_HoldsInWordleMode ==
    (mode = "Wordle" /\ last.called /\ last.result.ok) =>
        (is_correct(last.result.value) <=> last.result.value.guess = secret)

\* In Fibble mode the row of the secret itself is never all Correct.
C14_FibbleWinIsNeverCorrect ==
    (mode = "Fibble" /\ last.called /\ last.result.ok
        /\ last.result.value.guess = secret) => ~is_correct(last.result.value)

\* ---------------------------------------------------------------------
\* The suggestion run shows before each guess, and the first-guess cache.
\* cache is what load_first_guess_cache gets from serde_json: None when
\* cache_dir() is none, the file is missing or it is not a
\* FirstGuessCacheFile; otherwise Some of the file's four fields.  An
\* entropy keeps its value through the file.

FIRST_GUESS_CACHE_VERSION == 1

GuessInsights(best_guess, top_secret_guesses) ==
    [best_guess |-> best_guess, top_secret_guesses |-> top_secret_guesses]

\* GuessInsights::default()
GuessInsightsDefault == GuessInsights(None, <<>>)

FirstGuessCacheEntry(guess, bits) == [guess |-> guess, entropy_bits |-> bits]

FirstGuessCacheFile(version, total, allowed, entries) ==
    [version |-> version, total_secrets |-> total, allowed_words |-> allowed,
     entries |-> entries]

load_first_guess_cache(file, expected_total_secrets) ==
    IF ~file.some THEN None
    ELSE IF \/ file.value.version # FIRST_GUESS_CACHE_VERSION
            \/ file.value.total_secrets # expected_total_secrets
            \/ file.value.allowed_words # Len(allowed_words)
         THEN None
         ELSE Some(file.value.entries)

\* The file write_first_guess_cache creates from the suggestions of a scan.
write_first_guess_cache(suggestions, total) ==
    LET entries == [idx \in DOMAIN suggestions |->
                        FirstGuessCacheEntry(suggestions[idx].word,
                                             suggestions[idx].entropy_bits)]
    IN FirstGuessCacheFile(FIRST_GUESS_CACHE_VERSION, total, Len(allowed_words),
                           SortByEntropyDesc(entries, 1, <<>>))

insights_from_cache(entries, candidates) ==
    LET matching_secrets == Len(candidates)
        suggest(entry) ==
            GuessSuggestion(entry.guess, entry.entropy_bits, matching_secrets)
        is_candidate(entry) == entry.guess \in Range(candidates)
        kept == truncate(SelectSeq(entries, is_candidate), 4)
    IN GuessInsights(
            IF entries = <<>> THEN None ELSE Some(suggest(entries[1])),
            [idx \in DOMAIN kept |-> suggest(kept[idx])])

\* best_guess_with_progress with one arm for no candidate and for one.
best_guess_with_progress_none_for_one(g, file) ==
    LET candidates == remaining_secrets(g) IN
    IF Len(candidates) <= 1
    THEN [insights |-> GuessInsightsDefault, written |-> None]
    ELSE [insights |-> calculate_guess_suggestions(candidates, FALSE).insights,
          written |-> None]

\* insights is what the call returns, written the file it tries to create.
best_guess_with_progress(g, file) ==
    LET candidates == remaining_secrets(g) IN
    IF Len(candidates) = 0
    THEN [insights |-> GuessInsightsDefault, written |-> None]
    ELSE IF Len(candidates) = 1
    THEN LET suggestion == GuessSuggestion(candidates[1], ZeroBits, 1)
         IN [insights |-> GuessInsights(Some(suggestion), <<suggestion>>),
             written |-> None]
    ELSE IF g.guesses = <<>>
    THEN LET expected_total == Len(candidates)
             loaded == load_first_guess_cache(file, expected_total)
         IN IF loaded.some
            THEN [insights |-> insights_from_cache(loaded.value, candidates),
                  written |-> None]
            ELSE LET calc == calculate_guess_suggestions(candidates, TRUE)
                 IN [insights |-> calc.insights,
                     written |->
                        IF calc.all_suggestions.some
                        THEN Some(write_first_guess_cache(
                                    calc.all_suggestions.value, expected_total))
                        ELSE None]
    ELSE [insights |-> calculate_guess_suggestions(candidates, FALSE).insights,
          written |-> None]

\* The cache after a call: the file as written, or as it was where
\* File::create fails, or unreadable where the write breaks off.
CacheAfter(written) ==
    IF written.some THEN {written, cache, None} ELSE {cache}

\* A call of best_guess_with_progress on the game as it stands.
CallBestGuess ==
    /\ LET out == best_guess_with_progress(game, cache)
       IN /\ insights' = Call(game, out.insights)
          /\ cache' \in CacheAfter(out.written)
    /\ UNCHANGED <<secret, mode, guesses, last, analysis, pc, line>>
    /\ UNCHANGED <<p_secret, p_guess, p_letters, encoder>>

SuggestSubmit ==
    /\ Len(guesses) < MaxSuggestRows
    /\ \E guess \in GuessInputs : submit_guess(guess)
    /\ UNCHANGED <<secret, mode, analysis, p_secret, p_guess, p_letters>>
    /\ UNCHANGED <<front_end, encoder>>

NextSuggest == SuggestSubmit \/ CallBestGuess

\* Games whose cache file, if any, was written by the program itself.
SpecSuggest == Init /\ [][NextSuggest]_vars

\* The candidates of the game a suggestion was made for.
SuggestedFor == remaining_secrets(insights.input)

\* The best guess of the general scan over the allowed list for that game.
ScannedBest == calculate_guess_suggestions(SuggestedFor, FALSE).insights.best_guess

\* C11: with exactly one candidate left, the shortcut of
\* best_guess_with_progress returns the same guess and the same entropy as
\* the general scan of the allowed list against that one candidate.
C11_ShortcutEqualsScan ==
    (insights.called /\ Len(SuggestedFor) = 1) =>
        /\ insights.result.best_guess.some
        /\ ScannedBest.some
        /\ insights.result.best_guess.value.word = ScannedBest.value.word
        /\ insights.result.best_guess.value.entropy_bits
                = ScannedBest.value.entropy_bits

\* What the two do agree on: the entropy, 0.0, and the number of matching
\* secrets; and the scan's guess is the first allowed word, the library's
\* the last, whatever the candidate is.
C11_ShortcutAgreesOnEntropyOnly ==
    (insights.called /\ Len(SuggestedFor) = 1) =>
        /\ insights.result.best_guess.value.word = SuggestedFor[1]
        /\ insights.result.best_guess.value.entropy_bits = ZeroBits
        /\ ScannedBest.value.entropy_bits = ZeroBits
        /\ ScannedBest.value.matching_secrets = 1
        /\ ScannedBest.value.word = allowed_words[1]
        /\ best_information_guess(insights.input).value.guess
                = allowed_words[Len(allowed_words)]
        /\ entropy_bits(best_information_guess(insights.input).value) = ZeroBits

FreshCache ==
    write_first_guess_cache(
        calculate_guess_suggestions(WORDLE_SECRET_LIST, TRUE).all_suggestions.value,
        Len(WORDLE_SECRET_LIST))

\* Files of other builds: another version, other list sizes.
OtherVersionCache == [FreshCache EXCEPT !.version = FIRST_GUESS_CACHE_VERSION + 1]
OtherSecretsCache == [FreshCache EXCEPT !.total_secrets = Len(WORDLE_SECRET_LIST) + 1]
OtherAllowedCache == [FreshCache EXCEPT !.allowed_words = Len(allowed_words) + 1]

\* Files with the version and the sizes of this build and other entries:
\* none at all; the entries of a list that held APPLE where this one holds
\* ALLOW; the right entries in another order; the right words with the
\* entropies of another list.
EmptyCache == [FreshCache EXCEPT !.entries = <<>>]
RenamedCache ==
    [FreshCache EXCEPT !.entries =
        [idx \in DOMAIN @ |-> IF @[idx].guess = ALLOW
                              THEN FirstGuessCacheEntry(APPLE, @[idx].entropy_bits)
                              ELSE @[idx]]]
ReorderedCache ==
    [FreshCache EXCEPT !.entries =
        [idx \in DOMAIN @ |-> @[Len(@) + 1 - idx]]]
RescoredCache ==
    [FreshCache EXCEPT !.entries =
        [idx \in DOMAIN @ |->
            FirstGuessCacheEntry(@[idx].guess, @[Len(@) + 1 - idx].entropy_bits)]]

CacheFiles ==
    {None, Some(FreshCache), Some(OtherVersionCache), Some(OtherSecretsCache),
     Some(OtherAllowedCache), Some(EmptyCache), Some(RenamedCache),
     Some(ReorderedCache), Some(RescoredCache)}

\* A new game in a directory that may hold any of the cache files.
InitCache ==
    /\ \E word \in WORDLE_ALLOWED_SET, m \in GameMode :
          LET made == new_with_mode(word, m)
          IN /\ made.ok
             /\ secret = made.value.secret
             /\ mode = made.value.mode
             /\ guesses = made.value.guesses
    /\ last = NoCall
    /\ analysis = NoCall
    /\ NoHarness
    /\ cache \in CacheFiles
    /\ insights = NoCall
    /\ pc = "library"
    /\ line = NoLine

NextCache == CallBestGuess

SpecCache == InitCache /\ [][NextCache]_vars

\* The cache file passes the key check of load_first_guess_cache for the
\* whole secret list.
KeyPasses == load_first_guess_cache(cache, Len(WORDLE_SECRET_LIST)).some

\* C13: the suggestion for an empty history (best guess, its entropy, the
\* top secret guesses) is the one made without a cache file, whatever file
\* is found: none, the program's own, or any other that passes the key check.
C13_SameWithAnyCache ==
    (insights.called /\ insights.input.guesses = <<>>) =>
        insights.result = best_guess_with_progress(insights.input, None).insights

\* It is the same without a file, with a file of another key, which is
\* ignored and replaced, and with the file write_first_guess_cache makes.
C13_SameWithOwnCache ==
    (insights.called /\ insights.input.guesses = <<>>
        /\ (KeyPasses => cache = Some(FreshCache))) =>
        insights.result = best_guess_with_progress(insights.input, None).insights

\* A file that passes the key check is never replaced.
C13_PassingFileIsKept ==
    [][KeyPasses => cache' = cache]_vars

\* ---------------------------------------------------------------------
\* run: the interactive game.

WORDLE_MAX_ATTEMPTS == 6
FIBBLE_MAX_ATTEMPTS == 9

\* max_attempts with one attempt more in either mode.
max_attempts_one_more(m) ==
    IF m = "Wordle" THEN WORDLE_MAX_ATTEMPTS + 1 ELSE FIBBLE_MAX_ATTEMPTS + 1

max_attempts(m) ==
    IF m = "Wordle" THEN WORDLE_MAX_ATTEMPTS ELSE FIBBLE_MAX_ATTEMPTS

\* str::eq_ignore_ascii_case
eq_ignore_ascii_case(a, b) == to_ascii_uppercase(a) = to_ascii_uppercase(b)

\* "quit"
Quit == <<113, 117, 105, 116>>

\* The secrets run is started with: --secret cigar, or ALLOT out of
\* random_secret().
RunSecrets == {LowerCigar, ALLOT}

\* The lines typed: the two secrets, one of them in blanks, a word too
\* short, an unknown word, and quit.
RunLines == {ALLOT, PaddedCigar, Tool, Zzzzz, Quit}

\* The row just recorded shows one of the first LieChoices lies, counted
\* tile by tile, of the two states random_lie_state can pick for each.
FollowedLie ==
    (mode = "Fibble" /\ guesses' # guesses) =>
        LET row == guesses'[Len(guesses')]
            truth == score(secret, row.guess)
        IN \E lie_index \in 0..(WORD_LENGTH - 1), pick \in 0..1 :
              /\ lie_index * 2 + pick < LieChoices
              /\ row.letters = apply_fibble_lie(truth, lie_index, pick)

\* run up to its loop: parse_args and Wordle::new_with_mode.
InitRun ==
    /\ \E word \in RunSecrets, m \in GameMode :
          LET made == new_with_mode(word, m)
          IN /\ made.ok
             /\ secret = made.value.secret
             /\ mode = made.value.mode
             /\ guesses = made.value.guesses
    /\ last = NoCall
    /\ analysis = NoCall
    /\ NoHarness
    /\ cache = None
    /\ insights = NoCall
    /\ pc = "start"
    /\ line = NoLine

\* perform_fibble_auto_guess: a random secret other than the game's.
perform_fibble_auto_guess ==
    \E guess \in Range(secret_words) :
        /\ ~eq_ignore_ascii_case(guess, secret)
        /\ submit_guess(guess)
        /\ FollowedLie

\* run from the welcome to the head of the loop.
RunStart ==
    /\ pc = "start"
    /\ IF mode = "Fibble"
       THEN perform_fibble_auto_guess
       ELSE UNCHANGED <<guesses, last>>
    /\ pc' = "loop"
    /\ UNCHANGED <<secret, mode, analysis, cache, insights, line>>
    /\ UNCHANGED <<p_secret, p_guess, p_letters, encoder>>

\* One pass of the loop of run, or its end when the attempts are used up.
\* The suggestion is printed; the cache file it may write stays.
RunTurn ==
    /\ pc = "loop"
    /\ IF ~(Len(guesses) < max_attempts(mode))
       THEN /\ pc' = "done"
            /\ UNCHANGED <<guesses, last, cache, line>>
       ELSE /\ cache' \in CacheAfter(best_guess_with_progress(game, cache).written)
            /\ \E input \in {Line(text) : text \in RunLines} \cup {EndOfInput} :
                  /\ line' = input
                  /\ IF input.eof
                     THEN /\ pc' = "done"
                          /\ UNCHANGED <<guesses, last>>
                     ELSE LET guess == trim(input.text) IN
                          IF eq_ignore_ascii_case(guess, Quit)
                          THEN /\ pc' = "done"
                               /\ UNCHANGED <<guesses, last>>
                          ELSE IF Len(guess) # WORD_LENGTH
                          THEN /\ pc' = "loop"
                               /\ UNCHANGED <<guesses, last>>
                          ELSE /\ submit_guess(guess)
                               /\ FollowedLie
                               /\ pc' = IF /\ last'.result.ok
                                           /\ last'.result.value.guess = secret
                                        THEN "done" ELSE "loop"
    /\ UNCHANGED <<secret, mode, analysis, insights>>
    /\ UNCHANGED <<p_secret, p_guess, p_letters, encoder>>

NextRun == RunStart \/ RunTurn

SpecRun == InitRun /\ [][NextRun]_vars

\* Some recorded guess is the secret.
SecretRecorded == \E k \in DOMAIN guesses : guesses[k].guess = secret

\* A line that is no allowed word once trimmed and put in upper case.
LineRejected(input) ==
    /\ input.read
    /\ ~input.eof
    /\ to_ascii_uppercase(trim(input.text)) \notin WORDLE_ALLOWED_SET

\* C17: in run there are never more recorded guesses than the attempts of
\* the mode, 6 in Wordle mode and 9 in Fibble mode, the automatic opener of
\* Fibble mode being one of them; a rejected line leaves the recorded
\* guesses as they are; and once a recorded guess is the secret no further
\* guess is recorded.
C17_LoopKeepsWithinAttempts ==
    /\ [](Len(guesses) <= IF mode = "Wordle" THEN WORDLE_MAX_ATTEMPTS
                                            ELSE FIBBLE_MAX_ATTEMPTS)
    /\ []((mode = "Fibble" /\ pc # "start") => Len(guesses) >= 1)
    /\ [][(pc = "loop" /\ LineRejected(line')) => guesses' = guesses]_vars
    /\ [][SecretRecorded => guesses' = guesses]_vars

\* A Fibble game won on its ninth and last attempt, the opener being the first.
C17_Witness ==
    /\ mode = "Fibble"
    /\ pc = "done"
    /\ Len(guesses) = FIBBLE_MAX_ATTEMPTS
    /\ guesses[FIBBLE_MAX_ATTEMPTS].guess = secret
    /\ \A k \in 1..(FIBBLE_MAX_ATTEMPTS - 1) : guesses[k].guess # secret

\* Both kinds of rejected line are typed in the loop and leave the game at
\* the same attempt.
C17_RejectedLineTyped ==
    /\ pc = "loop"
    /\ LineRejected(line)
    /\ Len(trim(line.text)) = WORD_LENGTH
    /\ last.called /\ ~last.result.ok
    /\ guesses # <<>>

====
